---- MODULE Spec2Model ----
(***************************************************************************)
(* Standalone LeakSanitizer runtime (lsan.cpp): the start-up routine       *)
(* __lsan_init, the flag resolution InitializeFlags, and the process       *)
(* state they build.  Collaborators outside lsan.cpp (flag parser, thread  *)
(* registry, atexit) are modelled by their interface.                      *)
(***************************************************************************)
EXTENDS Integers, Sequences, FiniteSets, TLC

\* ---------------------------------------------------------------- bounds
NumThreads == 2
MaxCalls == 3
MaxDepth == 2
MaxTid == 1
MaxBootOptLen == 1
MaxDefaultOptLen == 2
MaxOptLen == 1
AddrSpace == 16
MaxSwitches == 2

Threads == 1..NumThreads

\* ------------------------------------------------------- option strings
\* An options string is a sequence of key=value tokens; a value is the
\* sequence of its characters.
Tok(k, v) == [key |-> k, val |-> v]

RECURSIVE SeqsUpTo(_, _)
SeqsUpTo(S, n) ==
  IF n = 0 THEN {<<>>}
  ELSE LET shorter == SeqsUpTo(S, n - 1)
       IN  shorter \cup {Append(s, x) : s \in shorter, x \in S}

BootTokens ==
  { Tok("detect_leaks", <<"0">>),
    Tok("leak_check_at_exit", <<"0">>),
    Tok("leak_check_at_exit", <<"1">>),
    Tok("verbosity", <<"1">>),
    Tok("log_path", <<"l", "o", "g">>) }

FlagTokens ==
  { Tok("detect_leaks", <<"0">>),
    Tok("detect_leaks", <<"1">>),
    Tok("intercept_tls_get_addr", <<"n", "o">>),
    Tok("malloc_context_size", <<"1">>),
    Tok("exitcode", <<"4", "2">>),
    Tok("report_objects", <<"1">>),
    Tok("bogus", <<"1">>) }

\* ------------------------------------------------------------ the flags
BoolFlags == {"detect_leaks", "leak_check_at_exit", "intercept_tls_get_addr",
              "fast_unwind_on_fatal", "coverage", "help"}
IntFlags == {"malloc_context_size", "exitcode", "verbosity"}
StrFlags == {"log_path", "external_symbolizer_path"}
CommonFlagNames == BoolFlags \cup IntFlags \cup StrFlags
LsanFlagNames == {"report_objects"}

\* Static storage before SetCommonFlagsDefaults has run.
ZeroCommonFlags ==
  [detect_leaks |-> FALSE, leak_check_at_exit |-> FALSE,
   intercept_tls_get_addr |-> FALSE, fast_unwind_on_fatal |-> FALSE,
   coverage |-> FALSE, help |-> FALSE,
   malloc_context_size |-> 0, exitcode |-> 0, verbosity |-> 0,
   log_path |-> <<>>, external_symbolizer_path |-> <<>>]

ZeroLsanFlags == [report_objects |-> FALSE]

SetCommonFlagsDefaults ==
  [detect_leaks |-> TRUE, leak_check_at_exit |-> TRUE,
   intercept_tls_get_addr |-> FALSE, fast_unwind_on_fatal |-> FALSE,
   coverage |-> FALSE, help |-> FALSE,
   malloc_context_size |-> 1, exitcode |-> 1, verbosity |-> 0,
   log_path |-> <<>>, external_symbolizer_path |-> <<>>]

SetDefaults == [report_objects |-> FALSE]

\* Value of LSAN_SYMBOLIZER_PATH in the environment.
EnvSymbolizerPath == <<"s">>

DigitVal ==
  ("0" :> 0) @@ ("1" :> 1) @@ ("2" :> 2) @@ ("3" :> 3) @@ ("4" :> 4) @@
  ("5" :> 5) @@ ("6" :> 6) @@ ("7" :> 7) @@ ("8" :> 8) @@ ("9" :> 9)

IsInt(v) == Len(v) > 0 /\ \A i \in 1..Len(v) : v[i] \in DOMAIN DigitVal

RECURSIVE ParseInt(_)
ParseInt(v) ==
  IF v = <<>> THEN 0
  ELSE 10 * ParseInt(SubSeq(v, 1, Len(v) - 1)) + DigitVal[v[Len(v)]]

TrueWords == {<<"1">>, <<"y", "e", "s">>, <<"t", "r", "u", "e">>}
FalseWords == {<<"0">>, <<"n", "o">>, <<"f", "a", "l", "s", "e">>}
IsBool(v) == v \in TrueWords \cup FalseWords
ParseBool(v) == v \in TrueWords

\* Typed value of a well-formed token of a registered flag.
FlagValue(k, v) ==
  IF k \in BoolFlags \cup LsanFlagNames THEN ParseBool(v)
  ELSE IF k \in IntFlags THEN ParseInt(v)
  ELSE v

WellFormed(k, v) ==
  IF k \in BoolFlags \cup LsanFlagNames THEN IsBool(v)
  ELSE IF k \in IntFlags THEN IsInt(v)
  ELSE TRUE

\* The parser after RegisterLsanFlags and RegisterCommonFlags: both the
\* tool's flags and the common flags are registered.  ps is the parser's
\* view [cf, f, unknown]: the common flags, the tool flags, and the
\* unrecognized keys collected so far.
ParseToken(ps, tk) ==
  IF tk.key \in CommonFlagNames
  THEN IF WellFormed(tk.key, tk.val)
       THEN [ps EXCEPT !.cf = [@ EXCEPT ![tk.key] = FlagValue(tk.key, tk.val)]]
       ELSE ps
  ELSE IF tk.key \in LsanFlagNames
  THEN IF WellFormed(tk.key, tk.val)
       THEN [ps EXCEPT !.f = [@ EXCEPT ![tk.key] = FlagValue(tk.key, tk.val)]]
       ELSE ps
  ELSE [ps EXCEPT !.unknown = @ \cup {tk.key}]

RECURSIVE ParseString(_, _)
ParseString(ps, s) ==
  IF s = <<>> THEN ps
  ELSE ParseString(ParseToken(ps, Head(s)), Tail(s))

\* Variant: the tool forgets to fix the allocation-context depth.
OverrideCommonFlags_NoContextSize(cf, em) ==
  [cf EXCEPT
     !.external_symbolizer_path = IF em THEN @ ELSE EnvSymbolizerPath,
     !.intercept_tls_get_addr = TRUE,
     !.detect_leaks = TRUE,
     !.exitcode = 23]

\* cf.CopyFrom(*common_flags()) followed by the tool's fixed assignments
\* and OverrideCommonFlags(cf).
OverrideCommonFlags(cf, em) ==
  [cf EXCEPT
     !.external_symbolizer_path = IF em THEN @ ELSE EnvSymbolizerPath,
     !.malloc_context_size = 30,
     !.intercept_tls_get_addr = TRUE,
     !.detect_leaks = TRUE,
     !.exitcode = 23]

\* Variant: LSAN_OPTIONS is parsed before the embedded options string.
ResolveFlags_EnvFirst(em, defaultOpts, envOpts) ==
  LET start == [cf |-> OverrideCommonFlags(SetCommonFlagsDefaults, em),
                f |-> SetDefaults,
                unknown |-> {}]
      afterEnv == ParseString(start, envOpts)
  IN  ParseString(afterEnv, defaultOpts)

\* The parser state InitializeFlags ends with: defaults, the tool's
\* overrides, then the embedded options string, then LSAN_OPTIONS.
ResolveFlags(em, defaultOpts, envOpts) ==
  LET start == [cf |-> OverrideCommonFlags(SetCommonFlagsDefaults, em),
                f |-> SetDefaults,
                unknown |-> {}]
      afterDefault == ParseString(start, defaultOpts)
  IN  ParseString(afterDefault, envOpts)

\* ---------------------------------------------------------------- state
VARIABLES
  emscripten,            \* SANITIZER_EMSCRIPTEN of this build
  mips,                  \* SANITIZER_MIPS of this build
  default_options,       \* what MaybeCallLsanDefaultOptions() returns
  lsan_options,          \* LSAN_OPTIONS (environment or Module['LSAN_OPTIONS'])
  lsan_inited,
  lsan_init_is_running,
  SanitizerToolName,
  common_flags,
  lsan_flags,            \* *flags()
  verbosity,             \* set by SetVerbosity
  report_path,           \* set by __sanitizer_set_report_path
  snapshot_stack,        \* StackTrace::snapshot_stack
  reported_unrecognized, \* keys printed by ReportUnrecognizedFlags
  printed_help,          \* parser.PrintFlagDescriptions() was called
  registry_inited,
  thread_ctx,            \* thread registry: tid -> record
  current_thread,        \* per OS thread: its current registry tid
  deadly_signal_handler,
  atexit_handlers,
  coverage_args,
  stack,                 \* per thread: frames of __lsan_init being executed
  calls,                 \* top-level calls of __lsan_init made so far
  started,               \* bring-up steps in the order they were entered
  completed,             \* bring-up steps in the order they returned
  abort_reason,          \* failed CHECK that killed the process, or "none"
  exited,                \* the process terminated normally
  leak_checks_run,       \* runs of DoLeakCheck
  unwind_call,           \* the latest call of BufferedStackTrace::UnwindImpl
  fatal_report,          \* what HandleDeadlySignal was handed, if called
  last_run,              \* the thread running inside __lsan_init, or 0
  switches               \* preemptions of a thread inside __lsan_init

buildVars == <<emscripten, mips, default_options, lsan_options>>
flagVars == <<common_flags, lsan_flags, verbosity, report_path, snapshot_stack,
              reported_unrecognized, printed_help>>
regVars == <<registry_inited, thread_ctx, current_thread>>
hookVars == <<SanitizerToolName, deadly_signal_handler, atexit_handlers,
              coverage_args>>
initVars == <<lsan_inited, lsan_init_is_running>>
procVars == <<calls, abort_reason, exited, leak_checks_run>>
logVars == <<started, completed>>
fatalVars == <<unwind_call, fatal_report>>
schedVars == <<last_run, switches>>
vars == <<buildVars, flagVars, regVars, hookVars, initVars, procVars, logVars,
          fatalVars, schedVars, stack>>

kInvalidTid == -1
NoContext == [status |-> "invalid", os_id |-> 0]
NoCoverage == [called |-> FALSE, coverage |-> FALSE]
NoReport == [called |-> FALSE]
NoCall == [called |-> FALSE]

\* OS-level id of thread t.
GetTid(t) == 1000 + t

\* Variant: the allocator is initialized before the common leak module.
LsanInitBody_AllocatorFirst(em) ==
  <<"CheckNotRunning", "ReturnIfInited", "SetInitIsRunning",
    "SetToolName", "CacheBinaryName", "AvoidCVE_2016_2143",
    "InitializeFlags", "InitializeAllocator", "InitCommonLsan",
    "ReplaceSystemMalloc", "InitTlsSize", "InitializeInterceptors",
    "InitializeThreadRegistry">>
  \o (IF em THEN <<>> ELSE <<"InstallDeadlySignalHandlers">>)
  \o <<"ThreadCreate", "CheckTid", "ThreadStart", "SetCurrentThread",
       "Atexit", "InitializeCoverage", "SetInited", "ClearInitIsRunning">>

\* Variant: the flags are resolved only after the common leak module and
\* the allocator have been initialized.
LsanInitBody_FlagsLate(em) ==
  <<"CheckNotRunning", "ReturnIfInited", "SetInitIsRunning",
    "SetToolName", "CacheBinaryName", "AvoidCVE_2016_2143",
    "InitCommonLsan", "InitializeAllocator", "InitializeFlags",
    "ReplaceSystemMalloc", "InitTlsSize", "InitializeInterceptors",
    "InitializeThreadRegistry">>
  \o (IF em THEN <<>> ELSE <<"InstallDeadlySignalHandlers">>)
  \o <<"ThreadCreate", "CheckTid", "ThreadStart", "SetCurrentThread",
       "Atexit", "InitializeCoverage", "SetInited", "ClearInitIsRunning">>

\* Variant: the signal handlers are installed before the flags are
\* resolved.
LsanInitBody_SignalsFirst(em) ==
  <<"CheckNotRunning", "ReturnIfInited", "SetInitIsRunning",
    "SetToolName", "CacheBinaryName", "AvoidCVE_2016_2143">>
  \o (IF em THEN <<>> ELSE <<"InstallDeadlySignalHandlers">>)
  \o <<"InitializeFlags", "InitCommonLsan", "InitializeAllocator",
       "ReplaceSystemMalloc", "InitTlsSize", "InitializeInterceptors",
       "InitializeThreadRegistry",
       "ThreadCreate", "CheckTid", "ThreadStart", "SetCurrentThread",
       "Atexit", "InitializeCoverage", "SetInited", "ClearInitIsRunning">>

\* Variant: the signal handlers are installed on every host.
LsanInitBody_AlwaysSignals(em) ==
  <<"CheckNotRunning", "ReturnIfInited", "SetInitIsRunning",
    "SetToolName", "CacheBinaryName", "AvoidCVE_2016_2143",
    "InitializeFlags", "InitCommonLsan", "InitializeAllocator",
    "ReplaceSystemMalloc", "InitTlsSize", "InitializeInterceptors",
    "InitializeThreadRegistry", "InstallDeadlySignalHandlers",
    "ThreadCreate", "CheckTid", "ThreadStart", "SetCurrentThread",
    "Atexit", "InitializeCoverage", "SetInited", "ClearInitIsRunning">>

\* Variant: lsan_init_is_running is cleared before lsan_inited is set.
LsanInitBody_FlagsSwapped(em) ==
  <<"CheckNotRunning", "ReturnIfInited", "SetInitIsRunning",
    "SetToolName", "CacheBinaryName", "AvoidCVE_2016_2143",
    "InitializeFlags", "InitCommonLsan", "InitializeAllocator",
    "ReplaceSystemMalloc", "InitTlsSize", "InitializeInterceptors",
    "InitializeThreadRegistry">>
  \o (IF em THEN <<>> ELSE <<"InstallDeadlySignalHandlers">>)
  \o <<"ThreadCreate", "CheckTid", "ThreadStart", "SetCurrentThread",
       "Atexit", "InitializeCoverage", "ClearInitIsRunning", "SetInited">>

\* The statements of __lsan_init, in program order.
LsanInitBody(em) ==
  <<"CheckNotRunning", "ReturnIfInited", "SetInitIsRunning",
    "SetToolName", "CacheBinaryName", "AvoidCVE_2016_2143",
    "InitializeFlags", "InitCommonLsan", "InitializeAllocator",
    "ReplaceSystemMalloc", "InitTlsSize", "InitializeInterceptors",
    "InitializeThreadRegistry">>
  \o (IF em THEN <<>> ELSE <<"InstallDeadlySignalHandlers">>)
  \o <<"ThreadCreate", "CheckTid", "ThreadStart", "SetCurrentThread",
       "Atexit", "InitializeCoverage", "SetInited", "ClearInitIsRunning">>

\* Statements that call a function outside lsan.cpp's control flow.
Collaborators ==
  {"CacheBinaryName", "AvoidCVE_2016_2143", "InitializeFlags",
   "InitCommonLsan", "InitializeAllocator", "ReplaceSystemMalloc",
   "InitTlsSize", "InitializeInterceptors", "InitializeThreadRegistry",
   "InstallDeadlySignalHandlers", "ThreadCreate", "ThreadStart",
   "SetCurrentThread", "Atexit", "InitializeCoverage"}

IndexOf(seq, x) == CHOOSE i \in 1..Len(seq) : seq[i] = x

NextLabel(l) ==
  LET body == LsanInitBody(emscripten)
      i == IndexOf(body, l)
  IN  IF i = Len(body) THEN "return" ELSE body[i + 1]

NewFrame == [pc |-> LsanInitBody(emscripten)[1], tid |-> kInvalidTid,
             busy |-> FALSE]

Top(t) == stack[t][Len(stack[t])]
SetTop(t, f) == [stack EXCEPT ![t] = [@ EXCEPT ![Len(@)] = f]]
Pop(t) == [stack EXCEPT ![t] = SubSeq(@, 1, Len(@) - 1)]
Goto(t, l) ==
  IF l = "return" THEN Pop(t)
  ELSE SetTop(t, [Top(t) EXCEPT !.pc = l, !.busy = FALSE])

Live == abort_reason = "none" /\ ~exited
At(t, l) == Live /\ stack[t] # <<>> /\ Top(t).pc = l

\* Thread t takes a step of __lsan_init.  Taking over from another thread
\* that is still inside __lsan_init is a preemption; preemptions are counted
\* and capped.
Run(t) ==
  /\ switches' = IF last_run \in {0, t} THEN switches ELSE switches + 1
  /\ switches' <= MaxSwitches
  /\ last_run' = IF stack'[t] = <<>> THEN 0 ELSE t

\* A bring-up step of thread t runs to completion and control moves on.
Advance(t, step) ==
  /\ started' = IF Top(t).busy THEN started ELSE Append(started, step)
  /\ completed' = Append(completed, step)
  /\ stack' = Goto(t, NextLabel(step))

\* ----------------------------------------------------------------- Init
InitState ==
  /\ lsan_inited = FALSE
  /\ lsan_init_is_running = FALSE
  /\ SanitizerToolName = "SanitizerTool"
  /\ common_flags = ZeroCommonFlags
  /\ lsan_flags = ZeroLsanFlags
  /\ verbosity = 0
  /\ report_path = <<"s", "t", "d", "e", "r", "r">>
  /\ snapshot_stack = TRUE
  /\ reported_unrecognized = {}
  /\ printed_help = FALSE
  /\ registry_inited = FALSE
  /\ thread_ctx = [i \in 0..MaxTid |-> NoContext]
  /\ current_thread = [t \in Threads |-> kInvalidTid]
  /\ deadly_signal_handler = "none"
  /\ atexit_handlers = <<>>
  /\ coverage_args = NoCoverage
  /\ stack = [t \in Threads |-> <<>>]
  /\ calls = 0
  /\ started = <<>>
  /\ completed = <<>>
  /\ abort_reason = "none"
  /\ exited = FALSE
  /\ leak_checks_run = 0
  /\ unwind_call = NoCall
  /\ fatal_report = NoReport
  /\ last_run = 0
  /\ switches = 0

\* The builds: Emscripten, MIPS, or any other host.
Build ==
  /\ emscripten \in BOOLEAN
  /\ mips \in (IF emscripten THEN {FALSE} ELSE BOOLEAN)

Init ==
  /\ Build
  /\ default_options \in SeqsUpTo(BootTokens, MaxBootOptLen)
  /\ lsan_options \in SeqsUpTo(BootTokens, MaxBootOptLen)
  /\ InitState

\* Start-up with the built-in options, with or without the fast unwinder
\* chosen for fatal errors.
InitFatal ==
  /\ Build
  /\ default_options = <<>>
  /\ lsan_options \in {<<>>, <<Tok("fast_unwind_on_fatal", <<"1">>)>>}
  /\ InitState

\* Start-up with the built-in options.
InitConc ==
  /\ Build
  /\ default_options = <<>>
  /\ lsan_options = <<>>
  /\ InitState

InitFlags ==
  /\ Build
  /\ default_options \in SeqsUpTo(FlagTokens, MaxDefaultOptLen)
  /\ lsan_options \in SeqsUpTo(FlagTokens, MaxOptLen)
  /\ InitState

\* -------------------------------------------------------------- actions
\* A thread that is not inside __lsan_init calls it; calls do not overlap.
LsanInitCall(t) ==
  /\ Live
  /\ calls < MaxCalls
  /\ \A u \in Threads : stack[u] = <<>>
  /\ stack' = [stack EXCEPT ![t] = <<NewFrame>>]
  /\ calls' = calls + 1
  /\ Run(t)
  /\ UNCHANGED <<buildVars, fatalVars, flagVars, regVars, hookVars, initVars, logVars,
                 abort_reason, exited, leak_checks_run>>

\* A thread that is not inside __lsan_init calls it, whatever the other
\* threads are doing: nothing in lsan.cpp serializes the callers.
LsanInitEnter(t) ==
  /\ Live
  /\ calls < MaxCalls
  /\ stack[t] = <<>>
  /\ stack' = [stack EXCEPT ![t] = <<NewFrame>>]
  /\ calls' = calls + 1
  /\ Run(t)
  /\ UNCHANGED <<buildVars, fatalVars, flagVars, regVars, hookVars, initVars,
                 logVars, abort_reason, exited, leak_checks_run>>

\* A collaborator called by the bring-up calls back into __lsan_init.
Reenter(t) ==
  /\ Live
  /\ stack[t] # <<>>
  /\ Top(t).pc \in Collaborators
  /\ Top(t).pc = "Atexit" =>
       (common_flags.detect_leaks /\ common_flags.leak_check_at_exit)
  /\ ~Top(t).busy
  /\ Len(stack[t]) < MaxDepth
  /\ started' = Append(started, Top(t).pc)
  /\ stack' = [stack EXCEPT
                 ![t] = Append(SubSeq(@, 1, Len(@) - 1),
                               [Top(t) EXCEPT !.busy = TRUE]) \o <<NewFrame>>]
  /\ Run(t)
  /\ UNCHANGED <<buildVars, fatalVars, flagVars, regVars, hookVars, initVars, procVars,
                 completed>>

\* Variant: the re-entrancy CHECK is missing.
CheckNotRunning_Skipped(t) ==
  /\ At(t, "CheckNotRunning")
  /\ stack' = Goto(t, NextLabel("CheckNotRunning"))
  /\ Run(t)
  /\ UNCHANGED <<buildVars, fatalVars, flagVars, regVars, hookVars, initVars, logVars,
                 procVars>>

\* CHECK(!lsan_init_is_running);
CheckNotRunning(t) ==
  /\ At(t, "CheckNotRunning")
  /\ IF lsan_init_is_running
     THEN /\ abort_reason' = "CHECK(!lsan_init_is_running)"
          /\ UNCHANGED stack
     ELSE /\ stack' = Goto(t, NextLabel("CheckNotRunning"))
          /\ UNCHANGED abort_reason
  /\ Run(t)
  /\ UNCHANGED <<buildVars, fatalVars, flagVars, regVars, hookVars, initVars, logVars,
                 calls, exited, leak_checks_run>>

\* Variant: the early return on lsan_inited is missing.
ReturnIfInited_Never(t) ==
  /\ At(t, "ReturnIfInited")
  /\ stack' = Goto(t, NextLabel("ReturnIfInited"))
  /\ Run(t)
  /\ UNCHANGED <<buildVars, fatalVars, flagVars, regVars, hookVars, initVars, procVars,
                 logVars>>

\* if (lsan_inited) return;
ReturnIfInited(t) ==
  /\ At(t, "ReturnIfInited")
  /\ stack' = IF lsan_inited THEN Pop(t)
              ELSE Goto(t, NextLabel("ReturnIfInited"))
  /\ Run(t)
  /\ UNCHANGED <<buildVars, fatalVars, flagVars, regVars, hookVars, initVars, procVars,
                 logVars>>

\* lsan_init_is_running = true;
SetInitIsRunning(t) ==
  /\ At(t, "SetInitIsRunning")
  /\ lsan_init_is_running' = TRUE
  /\ stack' = Goto(t, NextLabel("SetInitIsRunning"))
  /\ Run(t)
  /\ UNCHANGED <<buildVars, fatalVars, flagVars, regVars, hookVars, lsan_inited,
                 procVars, logVars>>

\* SanitizerToolName = "LeakSanitizer";
SetToolName(t) ==
  /\ At(t, "SetToolName")
  /\ SanitizerToolName' = "LeakSanitizer"
  /\ Advance(t, "SetToolName")
  /\ Run(t)
  /\ UNCHANGED <<buildVars, fatalVars, flagVars, regVars, deadly_signal_handler,
                 atexit_handlers, coverage_args, initVars, procVars>>

\* A bring-up call whose effect lies wholly in another module:
\* CacheBinaryName, AvoidCVE_2016_2143, InitCommonLsan, InitializeAllocator,
\* ReplaceSystemMalloc, InitTlsSize, InitializeInterceptors.
Opaque(t, step) ==
  /\ At(t, step)
  /\ Advance(t, step)
  /\ Run(t)
  /\ UNCHANGED <<buildVars, fatalVars, flagVars, regVars, hookVars, initVars, procVars>>

CacheBinaryName(t) == Opaque(t, "CacheBinaryName")
AvoidCVE_2016_2143(t) == Opaque(t, "AvoidCVE_2016_2143")
InitCommonLsan(t) == Opaque(t, "InitCommonLsan")
InitializeAllocator(t) == Opaque(t, "InitializeAllocator")
ReplaceSystemMalloc(t) == Opaque(t, "ReplaceSystemMalloc")
InitTlsSize(t) == Opaque(t, "InitTlsSize")
InitializeInterceptors(t) == Opaque(t, "InitializeInterceptors")

InitializeFlags(t) ==
  /\ At(t, "InitializeFlags")
  /\ LET r == ResolveFlags(emscripten, default_options, lsan_options)
     IN  /\ common_flags' = r.cf
         /\ lsan_flags' = r.f
         /\ snapshot_stack' = IF emscripten /\ r.cf.malloc_context_size <= 1
                              THEN FALSE ELSE snapshot_stack
         /\ verbosity' = r.cf.verbosity
         /\ reported_unrecognized' = IF r.cf.verbosity # 0
                                     THEN r.unknown ELSE reported_unrecognized
         /\ printed_help' = (printed_help \/ r.cf.help)
         /\ report_path' = r.cf.log_path
  /\ Advance(t, "InitializeFlags")
  /\ Run(t)
  /\ UNCHANGED <<buildVars, fatalVars, regVars, hookVars, initVars, procVars>>

InitializeThreadRegistry(t) ==
  /\ At(t, "InitializeThreadRegistry")
  /\ registry_inited' = TRUE
  /\ thread_ctx' = [i \in 0..MaxTid |-> NoContext]
  /\ Advance(t, "InitializeThreadRegistry")
  /\ Run(t)
  /\ UNCHANGED <<buildVars, fatalVars, flagVars, current_thread, hookVars, initVars,
                 procVars>>

\* InstallDeadlySignalHandlers(LsanOnDeadlySignal);
InstallDeadlySignalHandlers(t) ==
  /\ At(t, "InstallDeadlySignalHandlers")
  /\ deadly_signal_handler' = "LsanOnDeadlySignal"
  /\ Advance(t, "InstallDeadlySignalHandlers")
  /\ Run(t)
  /\ UNCHANGED <<buildVars, fatalVars, flagVars, regVars, SanitizerToolName,
                 atexit_handlers, coverage_args, initVars, procVars>>

\* u32 tid = ThreadCreate(0, 0, true);
ThreadCreate(t) ==
  /\ At(t, "ThreadCreate")
  /\ \E tid \in 0..MaxTid :
       /\ thread_ctx' = [thread_ctx EXCEPT ![tid] =
                           [status |-> "created", os_id |-> 0]]
       /\ started' = IF Top(t).busy THEN started
                     ELSE Append(started, "ThreadCreate")
       /\ completed' = Append(completed, "ThreadCreate")
       /\ stack' = SetTop(t, [Top(t) EXCEPT !.pc = NextLabel("ThreadCreate"),
                                            !.tid = tid, !.busy = FALSE])
  /\ Run(t)
  /\ UNCHANGED <<buildVars, fatalVars, flagVars, registry_inited, current_thread,
                 hookVars, initVars, procVars>>

\* Variant: the identifier returned by ThreadCreate is not checked.
CheckTid_Ignored(t) ==
  /\ At(t, "CheckTid")
  /\ stack' = Goto(t, NextLabel("CheckTid"))
  /\ Run(t)
  /\ UNCHANGED <<buildVars, fatalVars, flagVars, regVars, hookVars, initVars, logVars,
                 procVars>>

\* CHECK_EQ(tid, 0);
CheckTid(t) ==
  /\ At(t, "CheckTid")
  /\ IF Top(t).tid = 0
     THEN /\ stack' = Goto(t, NextLabel("CheckTid"))
          /\ UNCHANGED abort_reason
     ELSE /\ abort_reason' = "CHECK_EQ(tid, 0)"
          /\ UNCHANGED stack
  /\ Run(t)
  /\ UNCHANGED <<buildVars, fatalVars, flagVars, regVars, hookVars, initVars, logVars,
                 calls, exited, leak_checks_run>>

\* Variant: the thread is started without the caller's OS thread id.
ThreadStart_NoOsTid(t) ==
  /\ At(t, "ThreadStart")
  /\ thread_ctx' = [thread_ctx EXCEPT ![Top(t).tid] =
                      [status |-> "running", os_id |-> 0]]
  /\ Advance(t, "ThreadStart")
  /\ Run(t)
  /\ UNCHANGED <<buildVars, fatalVars, flagVars, registry_inited, current_thread,
                 hookVars, initVars, procVars>>

\* ThreadStart(tid, GetTid());
ThreadStart(t) ==
  /\ At(t, "ThreadStart")
  /\ thread_ctx' = [thread_ctx EXCEPT ![Top(t).tid] =
                      [status |-> "running", os_id |-> GetTid(t)]]
  /\ Advance(t, "ThreadStart")
  /\ Run(t)
  /\ UNCHANGED <<buildVars, fatalVars, flagVars, registry_inited, current_thread,
                 hookVars, initVars, procVars>>

\* SetCurrentThread(tid);
SetCurrentThread(t) ==
  /\ At(t, "SetCurrentThread")
  /\ current_thread' = [current_thread EXCEPT ![t] = Top(t).tid]
  /\ Advance(t, "SetCurrentThread")
  /\ Run(t)
  /\ UNCHANGED <<buildVars, fatalVars, flagVars, registry_inited, thread_ctx, hookVars,
                 initVars, procVars>>

\* Variant: the exit hook is registered when either toggle is on.
Atexit_EitherToggle(t) ==
  /\ At(t, "Atexit")
  /\ IF common_flags.detect_leaks \/ common_flags.leak_check_at_exit
     THEN /\ atexit_handlers' = Append(atexit_handlers, "DoLeakCheck")
          /\ Advance(t, "Atexit")
     ELSE /\ stack' = Goto(t, NextLabel("Atexit"))
          /\ UNCHANGED <<atexit_handlers, logVars>>
  /\ Run(t)
  /\ UNCHANGED <<buildVars, fatalVars, flagVars, regVars, SanitizerToolName,
                 deadly_signal_handler, coverage_args, initVars, procVars>>

\* Variant: the exit hook is registered whatever the toggles say.
Atexit_Always(t) ==
  /\ At(t, "Atexit")
  /\ atexit_handlers' = Append(atexit_handlers, "DoLeakCheck")
  /\ Advance(t, "Atexit")
  /\ Run(t)
  /\ UNCHANGED <<buildVars, fatalVars, flagVars, regVars, SanitizerToolName,
                 deadly_signal_handler, coverage_args, initVars, procVars>>

\* if (common_flags()->detect_leaks && common_flags()->leak_check_at_exit)
\*   Atexit(DoLeakCheck);
Atexit(t) ==
  /\ At(t, "Atexit")
  /\ IF common_flags.detect_leaks /\ common_flags.leak_check_at_exit
     THEN /\ atexit_handlers' = Append(atexit_handlers, "DoLeakCheck")
          /\ Advance(t, "Atexit")
     ELSE /\ stack' = Goto(t, NextLabel("Atexit"))
          /\ UNCHANGED <<atexit_handlers, logVars>>
  /\ Run(t)
  /\ UNCHANGED <<buildVars, fatalVars, flagVars, regVars, SanitizerToolName,
                 deadly_signal_handler, coverage_args, initVars, procVars>>

\* InitializeCoverage(common_flags()->coverage, common_flags()->coverage_dir);
InitializeCoverage(t) ==
  /\ At(t, "InitializeCoverage")
  /\ coverage_args' = [called |-> TRUE, coverage |-> common_flags.coverage]
  /\ Advance(t, "InitializeCoverage")
  /\ Run(t)
  /\ UNCHANGED <<buildVars, fatalVars, flagVars, regVars, SanitizerToolName,
                 deadly_signal_handler, atexit_handlers, initVars, procVars>>

\* lsan_inited = true;
SetInited(t) ==
  /\ At(t, "SetInited")
  /\ lsan_inited' = TRUE
  /\ stack' = Goto(t, NextLabel("SetInited"))
  /\ Run(t)
  /\ UNCHANGED <<buildVars, fatalVars, flagVars, regVars, hookVars,
                 lsan_init_is_running, procVars, logVars>>

\* Variant: the function returns without clearing lsan_init_is_running.
ClearInitIsRunning_Forgotten(t) ==
  /\ At(t, "ClearInitIsRunning")
  /\ stack' = Goto(t, NextLabel("ClearInitIsRunning"))
  /\ Run(t)
  /\ UNCHANGED <<buildVars, fatalVars, flagVars, regVars, hookVars, initVars,
                 procVars, logVars>>

\* lsan_init_is_running = false;  and the function returns
ClearInitIsRunning(t) ==
  /\ At(t, "ClearInitIsRunning")
  /\ lsan_init_is_running' = FALSE
  /\ stack' = Goto(t, NextLabel("ClearInitIsRunning"))
  /\ Run(t)
  /\ UNCHANGED <<buildVars, fatalVars, flagVars, regVars, hookVars, lsan_inited,
                 procVars, logVars>>

\* Normal process termination: the registered exit hooks run.
ProcessExit ==
  /\ Live
  /\ \A u \in Threads : stack[u] = <<>>
  /\ exited' = TRUE
  /\ leak_checks_run' = leak_checks_run +
       Cardinality({i \in 1..Len(atexit_handlers) :
                      atexit_handlers[i] = "DoLeakCheck"})
  /\ UNCHANGED <<buildVars, fatalVars, schedVars, flagVars, regVars, hookVars, initVars, logVars,
                 stack, calls, abort_reason>>

\* ------------------------------------------------------- stack unwinding
\* Addresses are words 0 .. AddrSpace - 1; uptr arithmetic wraps.
kStackTraceMax == 256
FrameWords == 2
nullptr == "nullptr"
Contexts == {"ctxA", "ctxB"}
PcValues == {8}
BpValues == {0, 3, 5, AddrSpace - 1}

\* Stack range of the OS thread os, as the registry records it at start.
stack_begin(tid) == 4 * (thread_ctx[tid].os_id - 1000) - 2
stack_end(tid) == stack_begin(tid) + 4

\* Registry entry of the calling thread: its tid, or kInvalidTid for null.
CurrentThreadContext(t) ==
  IF ~registry_inited \/ current_thread[t] = kInvalidTid
     \/ thread_ctx[current_thread[t]].status = "invalid"
  THEN kInvalidTid
  ELSE current_thread[t]

WillUseFastUnwind(request_fast) == request_fast

IsValidFrame(frame, stack_top, stack_bottom) ==
  /\ frame > stack_bottom
  /\ frame < (stack_top + AddrSpace - FrameWords) % AddrSpace

\* The call of Unwind that UnwindImpl makes, or NoUnwind when it makes none
\* and the trace stays empty.
Unwind(max_depth, pc, bp, context, stack_top, stack_bottom, request_fast) ==
  [issued |-> TRUE, max_depth |-> max_depth, pc |-> pc, bp |-> bp,
   context |-> context, stack_top |-> stack_top,
   stack_bottom |-> stack_bottom, fast |-> request_fast]
NoUnwind ==
  [issued |-> FALSE, max_depth |-> 0, pc |-> 0, bp |-> 0,
   context |-> nullptr, stack_top |-> 0, stack_bottom |-> 0, fast |-> FALSE]

\* Variant: an unresolved thread makes a fast request fall back to the
\* context-based unwind.
UnwindImpl_Fallback(t, pc, bp, context, request_fast, max_depth) ==
  LET fast == WillUseFastUnwind(request_fast)
      tc == IF fast THEN CurrentThreadContext(t) ELSE kInvalidTid
      resolved == fast /\ tc # kInvalidTid
      stack_top == IF resolved THEN stack_end(tc) ELSE 0
      stack_bottom == IF resolved THEN stack_begin(tc) ELSE 0
  IN  IF ~mips \/ IsValidFrame(bp, stack_top, stack_bottom)
      THEN IF resolved
           THEN Unwind(max_depth, pc, bp, nullptr, stack_top, stack_bottom,
                       TRUE)
           ELSE Unwind(max_depth, pc, 0, context, 0, 0, FALSE)
      ELSE NoUnwind

\* Variant: the frame pointer is never validated.
UnwindImpl_NoValidation(t, pc, bp, context, request_fast, max_depth) ==
  LET fast == WillUseFastUnwind(request_fast)
      tc == IF fast THEN CurrentThreadContext(t) ELSE kInvalidTid
      resolved == fast /\ tc # kInvalidTid
      stack_top == IF resolved THEN stack_end(tc) ELSE 0
      stack_bottom == IF resolved THEN stack_begin(tc) ELSE 0
  IN  IF fast
      THEN Unwind(max_depth, pc, bp, nullptr, stack_top, stack_bottom, TRUE)
      ELSE Unwind(max_depth, pc, 0, context, 0, 0, FALSE)

\* BufferedStackTrace::UnwindImpl called by thread t.
UnwindImpl(t, pc, bp, context, request_fast, max_depth) ==
  LET fast == WillUseFastUnwind(request_fast)
      tc == IF fast THEN CurrentThreadContext(t) ELSE kInvalidTid
      resolved == fast /\ tc # kInvalidTid
      stack_top == IF resolved THEN stack_end(tc) ELSE 0
      stack_bottom == IF resolved THEN stack_begin(tc) ELSE 0
  IN  IF ~mips \/ IsValidFrame(bp, stack_top, stack_bottom)
      THEN IF fast
           THEN Unwind(max_depth, pc, bp, nullptr, stack_top, stack_bottom,
                       TRUE)
           ELSE Unwind(max_depth, pc, 0, context, 0, 0, FALSE)
      ELSE NoUnwind

\* One call of the dispatcher, with what the caller saw of its thread.
UnwindRecord(t, pc, bp, context, request_fast, max_depth) ==
  [called |-> TRUE, thread |-> t, pc |-> pc, bp |-> bp, context |-> context,
   request_fast |-> request_fast, max_depth |-> max_depth,
   tctx |-> CurrentThreadContext(t),
   call |-> UnwindImpl(t, pc, bp, context, request_fast, max_depth)]

\* Some thread takes a stack trace.
UnwindImplCall(t) ==
  /\ Live
  /\ \E pc \in PcValues, bp \in BpValues, context \in Contexts,
        request_fast \in BOOLEAN :
       unwind_call' =
         UnwindRecord(t, pc, bp, context, request_fast, kStackTraceMax)
  /\ UNCHANGED <<buildVars, flagVars, regVars, hookVars, initVars, procVars,
                 logVars, schedVars, fatal_report, stack>>

\* ------------------------------------------------------- deadly signals
Signals == {[info |-> "siginfo", pc |-> pc, bp |-> bp, context |-> "ctxA"] :
              pc \in PcValues, bp \in {0, 3}}

GetNextInstructionPc(pc) == IF mips THEN pc + 8 ELSE pc + 1

\* Variant: the faulting pc is passed on unadjusted.
OnStackUnwind_RawPc(t, sig) ==
  UnwindRecord(t, sig.pc, sig.bp, sig.context,
               common_flags.fast_unwind_on_fatal, kStackTraceMax)

\* stack->Unwind(GetNextInstructionPc(sig.pc), sig.bp, sig.context,
\*               common_flags()->fast_unwind_on_fatal);
OnStackUnwind(t, sig) ==
  UnwindRecord(t, GetNextInstructionPc(sig.pc), sig.bp, sig.context,
               common_flags.fast_unwind_on_fatal, kStackTraceMax)

\* A fatal signal reaches thread t while LsanOnDeadlySignal is installed:
\* HandleDeadlySignal(siginfo, context, GetCurrentThread(), &OnStackUnwind,
\* nullptr) runs the callback once, reports and kills the process.
LsanOnDeadlySignal(t) ==
  /\ Live
  /\ deadly_signal_handler = "LsanOnDeadlySignal"
  /\ \E sig \in Signals :
       /\ fatal_report' = [called |-> TRUE, thread |-> t, sig |-> sig,
                           siginfo |-> sig.info, context |-> sig.context,
                           tid |-> current_thread[t],
                           unwind |-> "OnStackUnwind",
                           unwind_context |-> nullptr,
                           unwinds |-> <<OnStackUnwind(t, sig)>>]
       /\ unwind_call' = OnStackUnwind(t, sig)
  /\ abort_reason' = "DeadlySignal"
  /\ UNCHANGED <<buildVars, flagVars, regVars, hookVars, initVars, logVars,
                 schedVars, calls, exited, leak_checks_run, stack>>

\* ---------------------------------------------------------------- specs
Next ==
  \/ \E t \in Threads : LsanInitCall(t)
  \/ \E t \in Threads : Reenter(t)
  \/ \E t \in Threads : CheckNotRunning(t)
  \/ \E t \in Threads : ReturnIfInited(t)
  \/ \E t \in Threads : SetInitIsRunning(t)
  \/ \E t \in Threads : SetToolName(t)
  \/ \E t \in Threads : CacheBinaryName(t)
  \/ \E t \in Threads : AvoidCVE_2016_2143(t)
  \/ \E t \in Threads : InitializeFlags(t)
  \/ \E t \in Threads : InitCommonLsan(t)
  \/ \E t \in Threads : InitializeAllocator(t)
  \/ \E t \in Threads : ReplaceSystemMalloc(t)
  \/ \E t \in Threads : InitTlsSize(t)
  \/ \E t \in Threads : InitializeInterceptors(t)
  \/ \E t \in Threads : InitializeThreadRegistry(t)
  \/ \E t \in Threads : InstallDeadlySignalHandlers(t)
  \/ \E t \in Threads : ThreadCreate(t)
  \/ \E t \in Threads : CheckTid(t)
  \/ \E t \in Threads : ThreadStart(t)
  \/ \E t \in Threads : SetCurrentThread(t)
  \/ \E t \in Threads : Atexit(t)
  \/ \E t \in Threads : InitializeCoverage(t)
  \/ \E t \in Threads : SetInited(t)
  \/ \E t \in Threads : ClearInitIsRunning(t)
  \/ ProcessExit

Spec == Init /\ [][Next]_vars

\* Flag resolution on its own: the start of the first call (made by
\* thread 1), up to and including InitializeFlags, over a wider range of
\* option strings.
NextFlags ==
  \/ LsanInitCall(1)
  \/ \E t \in Threads : CheckNotRunning(t)
  \/ \E t \in Threads : ReturnIfInited(t)
  \/ \E t \in Threads : SetInitIsRunning(t)
  \/ \E t \in Threads : SetToolName(t)
  \/ \E t \in Threads : CacheBinaryName(t)
  \/ \E t \in Threads : AvoidCVE_2016_2143(t)
  \/ \E t \in Threads : InitializeFlags(t)

SpecFlags == InitFlags /\ [][NextFlags]_vars

\* Start-up, stack traces taken by any thread at any point, and fatal
\* signals.
NextFatal ==
  \/ Next
  \/ \E t \in Threads : UnwindImplCall(t)
  \/ \E t \in Threads : LsanOnDeadlySignal(t)

SpecFatal == InitFatal /\ [][NextFatal]_vars

\* Threads call __lsan_init concurrently; the statements of the calls
\* interleave.  No collaborator calls back.
NextConc ==
  \/ \E t \in Threads : LsanInitEnter(t)
  \/ \E t \in Threads : CheckNotRunning(t)
  \/ \E t \in Threads : ReturnIfInited(t)
  \/ \E t \in Threads : SetInitIsRunning(t)
  \/ \E t \in Threads : SetToolName(t)
  \/ \E t \in Threads : CacheBinaryName(t)
  \/ \E t \in Threads : AvoidCVE_2016_2143(t)
  \/ \E t \in Threads : InitializeFlags(t)
  \/ \E t \in Threads : InitCommonLsan(t)
  \/ \E t \in Threads : InitializeAllocator(t)
  \/ \E t \in Threads : ReplaceSystemMalloc(t)
  \/ \E t \in Threads : InitTlsSize(t)
  \/ \E t \in Threads : InitializeInterceptors(t)
  \/ \E t \in Threads : InitializeThreadRegistry(t)
  \/ \E t \in Threads : InstallDeadlySignalHandlers(t)
  \/ \E t \in Threads : ThreadCreate(t)
  \/ \E t \in Threads : CheckTid(t)
  \/ \E t \in Threads : ThreadStart(t)
  \/ \E t \in Threads : SetCurrentThread(t)
  \/ \E t \in Threads : Atexit(t)
  \/ \E t \in Threads : InitializeCoverage(t)
  \/ \E t \in Threads : SetInited(t)
  \/ \E t \in Threads : ClearInitIsRunning(t)

SpecConc == InitConc /\ [][NextConc]_vars

\* Non-overlapping calls in which a thread that can take a step of
\* __lsan_init eventually takes one.
SpecLive == InitConc /\ [][Next]_vars /\ WF_vars(Next)

\* ------------------------------------------------------------ properties
Count(seq, x) == Cardinality({i \in 1..Len(seq) : seq[i] = x})
IsPrefix(p, q) == Len(p) <= Len(q) /\ SubSeq(q, 1, Len(p)) = p
Has(seq, x) == \E i \in 1..Len(seq) : seq[i] = x

Idle == \A t \in Threads : stack[t] = <<>>
BothToggles == common_flags.detect_leaks /\ common_flags.leak_check_at_exit
FlagsResolved == Has(completed, "InitializeFlags")

\* The order of bring-up the design prescribes; the signal bridge is left
\* out on a host without signals, the exit hook when it is not wanted.
SpecifiedOrder(em, atexit) ==
  <<"SetToolName", "CacheBinaryName", "AvoidCVE_2016_2143",
    "InitializeFlags", "InitCommonLsan", "InitializeAllocator",
    "ReplaceSystemMalloc", "InitTlsSize", "InitializeInterceptors",
    "InitializeThreadRegistry">>
  \o (IF em THEN <<>> ELSE <<"InstallDeadlySignalHandlers">>)
  \o <<"ThreadCreate", "ThreadStart", "SetCurrentThread">>
  \o (IF atexit THEN <<"Atexit">> ELSE <<>>)
  \o <<"InitializeCoverage">>

AllSteps == {SpecifiedOrder(FALSE, TRUE)[i] : i \in 1..16}

C1_Steps ==
  {"InitializeFlags", "InitCommonLsan", "InitializeAllocator",
   "ReplaceSystemMalloc", "InitTlsSize", "InitializeInterceptors",
   "InitializeThreadRegistry", "ThreadCreate", "ThreadStart",
   "SetCurrentThread", "InitializeCoverage"}

C1_Once ==
  /\ \A s \in AllSteps : Count(started, s) <= 1
  /\ (calls >= 1 /\ Idle /\ abort_reason = "none") =>
       /\ lsan_inited
       /\ \A s \in C1_Steps : Count(started, s) = 1 /\ Count(completed, s) = 1
  /\ (lsan_inited /\ ~lsan_init_is_running) =>
       \A t \in Threads : \A i \in 1..Len(stack[t]) :
         stack[t][i].pc \in {"CheckNotRunning", "ReturnIfInited"}

C1_NoOp ==
  (lsan_inited /\ ~lsan_init_is_running) =>
    UNCHANGED <<buildVars, flagVars, regVars, hookVars, initVars, logVars,
                abort_reason>>

\* C1: over non-overlapping calls of __lsan_init every bring-up step runs
\* exactly once in total; lsan_inited holds once the first call has
\* returned; a later call goes no further than the two entry tests and
\* changes no state.
C1_InitOnce == []C1_Once /\ [][C1_NoOp]_vars

C1_Witness == calls >= 2 /\ Idle /\ lsan_inited /\ ~exited

C2_Nested ==
  /\ \A t \in Threads :
       Len(stack[t]) >= 2 =>
         /\ Top(t).pc = "CheckNotRunning"
         /\ lsan_init_is_running
         /\ ~lsan_inited
  /\ (abort_reason = "CHECK(!lsan_init_is_running)") =>
       /\ ~lsan_inited
       /\ \A s \in AllSteps : Count(started, s) <= 1
       /\ Len(started) = Len(completed) + 1

C2_Dies ==
  /\ abort_reason = "none"
  /\ (\E t \in Threads : Len(stack[t]) >= 2) =>
       abort_reason' = "CHECK(!lsan_init_is_running)"

\* C2: a call of __lsan_init made from inside the bring-up fails
\* CHECK(!lsan_init_is_running): the nested call never gets past the
\* check, the process is killed by the very next step, nothing runs
\* after the abort, no step has run twice and lsan_inited is still false.
C2_ReentryIsFatal == []C2_Nested /\ [][C2_Dies]_vars

C2_Witness ==
  /\ abort_reason = "CHECK(!lsan_init_is_running)"
  /\ Has(started, "InitializeAllocator")

\* C3: the bring-up steps are entered in exactly the prescribed order,
\* each one only after the one before it has returned, and lsan_inited is
\* set only after all of them have returned.
C3_Order ==
  /\ IsPrefix(started, SpecifiedOrder(emscripten, BothToggles))
  /\ IsPrefix(completed, started)
  /\ Len(started) <= Len(completed) + 1
  /\ lsan_inited => completed = SpecifiedOrder(emscripten, BothToggles)

C3_Witness ==
  /\ lsan_inited
  /\ ~emscripten
  /\ Len(completed) = 16

C4_Hooks ==
  {"InitCommonLsan", "InitializeAllocator", "ReplaceSystemMalloc",
   "InitTlsSize", "InitializeInterceptors", "InitializeThreadRegistry",
   "InstallDeadlySignalHandlers", "ThreadCreate", "ThreadStart",
   "SetCurrentThread", "Atexit", "InitializeCoverage"}

\* C4: InitializeFlags runs at most once and has returned, with the
\* verbosity and the report path set from the resolved flags, before any
\* later subsystem hook is entered or reads the flags.
C4_FlagsFirst ==
  /\ Count(started, "InitializeFlags") <= 1
  /\ (\/ \E s \in C4_Hooks : Has(started, s)
      \/ \E t \in Threads : \E i \in 1..Len(stack[t]) :
           stack[t][i].pc \in C4_Hooks) =>
       /\ Count(completed, "InitializeFlags") = 1
       /\ common_flags # ZeroCommonFlags
       /\ verbosity = common_flags.verbosity
       /\ report_path = common_flags.log_path

C4_Witness ==
  /\ Has(started, "InitCommonLsan")
  /\ ~Has(completed, "InitCommonLsan")
  /\ verbosity = 1
  /\ report_path = <<"l", "o", "g">>

\* C5: Atexit(DoLeakCheck) is called at most once, only when detect_leaks
\* and leak_check_at_exit both hold in the resolved flags, and whenever
\* they do: after bring-up the hook is registered iff both hold.
C5_AtexitIff ==
  /\ Len(atexit_handlers) <= 1
  /\ Count(completed, "Atexit") = Len(atexit_handlers)
  /\ Has(started, "Atexit") => (FlagsResolved /\ BothToggles)
  /\ lsan_inited => (atexit_handlers = <<"DoLeakCheck">> <=> BothToggles)

C5_Witness ==
  /\ calls >= 2
  /\ Idle
  /\ atexit_handlers = <<"DoLeakCheck">>
  /\ lsan_options = <<Tok("leak_check_at_exit", <<"1">>)>>
  /\ default_options = <<Tok("leak_check_at_exit", <<"0">>)>>

\* C6: after one or more calls of __lsan_init, normal termination runs
\* DoLeakCheck exactly once when both toggles are on and not at all when
\* either is off; it never runs before termination.
C6_LeakCheckAtExit ==
  /\ ~exited => leak_checks_run = 0
  /\ (exited /\ calls >= 1) =>
       leak_checks_run = (IF BothToggles THEN 1 ELSE 0)

C6_Witness == exited /\ calls >= 2 /\ leak_checks_run = 1

Mentions(s, k) == \E i \in 1..Len(s) : s[i].key = k
LastOf(s, k) ==
  s[CHOOSE i \in 1..Len(s) :
      s[i].key = k /\ \A j \in (i + 1)..Len(s) : s[j].key # k]

BuiltIn(k) ==
  IF k \in LsanFlagNames THEN SetDefaults[k]
  ELSE OverrideCommonFlags(SetCommonFlagsDefaults, emscripten)[k]

Resolved(k) == IF k \in LsanFlagNames THEN lsan_flags[k] ELSE common_flags[k]

\* C7: after InitializeFlags every flag has the value of the last source
\* that mentions it, in the order built-in value, embedded options
\* string, LSAN_OPTIONS; within a string the last mention counts.
C7_LastWriterWins ==
  FlagsResolved =>
    \A k \in CommonFlagNames \cup LsanFlagNames :
      Resolved(k) =
        IF Mentions(lsan_options, k)
        THEN FlagValue(k, LastOf(lsan_options, k).val)
        ELSE IF Mentions(default_options, k)
        THEN FlagValue(k, LastOf(default_options, k).val)
        ELSE BuiltIn(k)

C7_Witness ==
  /\ FlagsResolved
  /\ default_options = <<Tok("detect_leaks", <<"0">>),
                         Tok("exitcode", <<"4", "2">>)>>
  /\ lsan_options = <<Tok("detect_leaks", <<"1">>)>>
  /\ common_flags.detect_leaks
  /\ common_flags.exitcode = 42

ToolKeys == {"detect_leaks", "intercept_tls_get_addr", "malloc_context_size",
             "exitcode"}
ToolValue(k) ==
  IF k = "malloc_context_size" THEN 30
  ELSE IF k = "exitcode" THEN 23
  ELSE TRUE

\* C8 as stated: whatever the two option strings say, the resolved flags
\* have detect_leaks, intercept_tls_get_addr, malloc_context_size = 30 and
\* exitcode = 23.
C8_Original ==
  FlagsResolved =>
    /\ common_flags.detect_leaks = TRUE
    /\ common_flags.intercept_tls_get_addr = TRUE
    /\ common_flags.malloc_context_size = 30
    /\ common_flags.exitcode = 23

\* C8 amended: each of the four tool-set flags has the tool's value
\* after InitializeFlags unless an options string mentions that flag.
C8_ToolDefaults ==
  FlagsResolved =>
    \A k \in ToolKeys :
      (~Mentions(default_options, k) /\ ~Mentions(lsan_options, k)) =>
        common_flags[k] = ToolValue(k)

C8_Witness ==
  /\ FlagsResolved
  /\ lsan_options = <<Tok("detect_leaks", <<"0">>)>>
  /\ default_options = <<>>
  /\ ~common_flags.detect_leaks
  /\ common_flags.malloc_context_size = 30
  /\ common_flags.exitcode = 23
  /\ common_flags.intercept_tls_get_addr

C9_Bound(t) ==
  /\ thread_ctx[0] = [status |-> "running", os_id |-> GetTid(t)]
  /\ current_thread[t] = 0

C9_Record ==
  /\ lsan_inited => \E t \in Threads : C9_Bound(t)
  /\ \A i \in 0..MaxTid :
       thread_ctx[i].status # "invalid" =>
         registry_inited /\ Has(completed, "InitializeThreadRegistry")

C9_Caller ==
  (~lsan_inited /\ lsan_inited') =>
    \A t \in Threads : stack[t] # <<>> =>
      /\ thread_ctx'[0] = [status |-> "running", os_id |-> GetTid(t)]
      /\ current_thread'[t] = 0

\* C9: whenever lsan_inited holds, registry entry 0 exists, is started
\* with the OS id of the thread that ran the bring-up and is that
\* thread's current entry; no entry exists before
\* InitializeThreadRegistry has returned.
C9_BootstrapThread == []C9_Record /\ [][C9_Caller]_vars

C9_Witness ==
  /\ lsan_inited
  /\ calls >= 2
  /\ current_thread[2] = 0
  /\ stack[1] # <<>>

C10_Aborted ==
  (abort_reason = "CHECK_EQ(tid, 0)") =>
    /\ ~lsan_inited
    /\ ~Has(started, "ThreadStart")
    /\ ~Has(started, "SetCurrentThread")
    /\ \A t \in Threads : current_thread[t] = kInvalidTid
    /\ \A i \in 0..MaxTid : thread_ctx[i].status # "running"
    /\ atexit_handlers = <<>>
    /\ ~coverage_args.called

C10_Immediate ==
  /\ abort_reason = "none"
  /\ (\E t \in Threads : At(t, "CheckTid") /\ Top(t).tid # 0) =>
       abort_reason' = "CHECK_EQ(tid, 0)"

\* C10: when ThreadCreate hands back an identifier other than 0, the next
\* step is the abort by CHECK_EQ(tid, 0); ThreadStart, SetCurrentThread,
\* Atexit and InitializeCoverage have not run, nothing runs afterwards,
\* and lsan_inited stays false.
C10_TidMismatchIsFatal == []C10_Aborted /\ [][C10_Immediate]_vars

C10_Witness ==
  /\ abort_reason = "CHECK_EQ(tid, 0)"
  /\ thread_ctx[1].status = "created"

\* C11 as stated: a context-based request always ends in the context-based
\* unwind with the supplied context, whatever bp, the thread's stack
\* bounds and the architecture are.
C11_ContextOnly ==
  (unwind_call.called /\ ~unwind_call.request_fast) =>
    unwind_call.call =
      Unwind(unwind_call.max_depth, unwind_call.pc, 0, unwind_call.context,
             0, 0, FALSE)

C12_Case ==
  /\ unwind_call.called
  /\ unwind_call.request_fast
  /\ unwind_call.tctx = kInvalidTid

C13_Resolved == unwind_call.tctx # kInvalidTid

\* C13: on MIPS a fast request whose bp lies outside the stack range
\* recorded for the caller's thread makes no unwind at all; on a host that
\* does not validate, a fast request always makes the frame-pointer walk
\* from bp with a null context and the resolved bounds (0 when the thread
\* is not resolved).
C13_Validation ==
  (unwind_call.called /\ unwind_call.request_fast) =>
    /\ (/\ mips
        /\ C13_Resolved
        /\ ~(/\ unwind_call.bp >= stack_begin(unwind_call.tctx)
             /\ unwind_call.bp < stack_end(unwind_call.tctx))) =>
         ~unwind_call.call.issued
    /\ ~mips =>
         /\ unwind_call.call.issued
         /\ unwind_call.call.fast
         /\ unwind_call.call.bp = unwind_call.bp
         /\ unwind_call.call.pc = unwind_call.pc
         /\ unwind_call.call.max_depth = unwind_call.max_depth
         /\ unwind_call.call.context = nullptr
         /\ unwind_call.call.stack_top =
              (IF C13_Resolved THEN stack_end(unwind_call.tctx) ELSE 0)
         /\ unwind_call.call.stack_bottom =
              (IF C13_Resolved THEN stack_begin(unwind_call.tctx) ELSE 0)

C13_Witness ==
  /\ mips
  /\ unwind_call.called
  /\ unwind_call.request_fast
  /\ unwind_call.tctx = 0
  /\ unwind_call.bp = AddrSpace - 1
  /\ ~unwind_call.call.issued

\* C16: a handled fatal signal hands its siginfo, its context and the
\* current thread to HandleDeadlySignal with OnStackUnwind as callback;
\* the callback makes exactly one dispatcher call, for the instruction
\* after the faulting pc, with the signal's bp and context and with the
\* fast/precise choice of fast_unwind_on_fatal.
C16_Bridge ==
  fatal_report.called =>
    /\ fatal_report.siginfo = fatal_report.sig.info
    /\ fatal_report.context = fatal_report.sig.context
    /\ fatal_report.tid = current_thread[fatal_report.thread]
    /\ fatal_report.unwind = "OnStackUnwind"
    /\ Len(fatal_report.unwinds) = 1
    /\ LET u == fatal_report.unwinds[1]
       IN  /\ u.pc = GetNextInstructionPc(fatal_report.sig.pc)
           /\ u.pc > fatal_report.sig.pc
           /\ u.bp = fatal_report.sig.bp
           /\ u.context = fatal_report.sig.context
           /\ u.request_fast = common_flags.fast_unwind_on_fatal
           /\ u.call.issued => u.call.fast = common_flags.fast_unwind_on_fatal

C16_Witness ==
  /\ fatal_report.called
  /\ common_flags.fast_unwind_on_fatal
  /\ fatal_report.unwinds[1].call.issued
  /\ fatal_report.unwinds[1].call.fast
  /\ fatal_report.unwinds[1].call.stack_top > 0

\* C20: a fatal signal is handled only after InstallDeadlySignalHandlers,
\* hence after InitializeFlags and InitializeThreadRegistry have returned,
\* and its unwind uses the resolved fast_unwind_on_fatal; it can be
\* handled before the bootstrap thread is set current, and is then handled
\* with no registry entry and zero stack bounds.
C20_HandlerWindow ==
  fatal_report.called =>
    /\ Has(completed, "InstallDeadlySignalHandlers")
    /\ Has(completed, "InitializeFlags")
    /\ Has(completed, "InitializeThreadRegistry")
    /\ registry_inited
    /\ LET u == fatal_report.unwinds[1]
       IN  /\ u.request_fast =
                ResolveFlags(emscripten, default_options,
                             lsan_options).cf.fast_unwind_on_fatal
           /\ fatal_report.tid = kInvalidTid =>
                /\ u.tctx = kInvalidTid
                /\ u.call.issued =>
                     u.call.stack_top = 0 /\ u.call.stack_bottom = 0

C20_Witness ==
  /\ fatal_report.called
  /\ ~Has(started, "ThreadCreate")
  /\ stack[fatal_report.thread] # <<>>
  /\ fatal_report.tid = kInvalidTid
  /\ fatal_report.unwinds[1].request_fast
  /\ fatal_report.unwinds[1].call.issued


\* Thread t is past the two entry tests of a call of __lsan_init.
PastEntry(t) ==
  /\ stack[t] # <<>>
  /\ Top(t).pc \notin {"CheckNotRunning", "ReturnIfInited"}

\* Thread t is between the statements of lines 129 and 155.
InBringUp(t) == PastEntry(t) /\ Top(t).pc # "SetInitIsRunning"

\* C14: when threads call __lsan_init concurrently, at most one of them
\* goes past the entry tests, no bring-up step is started twice, and
\* DoLeakCheck is registered with Atexit at most once.
C14_Exclusive ==
  /\ Cardinality({t \in Threads : PastEntry(t)}) <= 1
  /\ \A s \in AllSteps : Count(started, s) <= 1
  /\ Len(atexit_handlers) <= 1

\* C15 as stated: a thread that calls __lsan_init while another thread is
\* inside the bring-up is never terminated by CHECK(!lsan_init_is_running).
C15_Original ==
  ~ /\ abort_reason = "CHECK(!lsan_init_is_running)"
    /\ \E t, u \in Threads :
         /\ t # u
         /\ Len(stack[t]) = 1
         /\ Top(t).pc = "CheckNotRunning"
         /\ InBringUp(u)

C15_Aborts ==
  abort_reason = "CHECK(!lsan_init_is_running)" =>
    /\ lsan_init_is_running
    /\ \E t, u \in Threads :
         /\ t # u
         /\ stack[t] # <<>>
         /\ Top(t).pc = "CheckNotRunning"
         /\ InBringUp(u)

C15_Stops ==
  \A t \in Threads :
    (At(t, "CheckNotRunning") /\ lsan_init_is_running) =>
      /\ stack'[t] = stack[t]
      /\ (last_run' = t => abort_reason' = "CHECK(!lsan_init_is_running)")

C15_Slips ==
  \A t \in Threads :
    (At(t, "CheckNotRunning") /\ ~lsan_init_is_running /\ last_run' = t) =>
      /\ abort_reason' = "none"
      /\ stack'[t] # <<>>
      /\ Top(t).pc' = "ReturnIfInited"

\* C15: the guard is one flag shared by all threads.  A thread that
\* executes line 126 while the flag is set, that is while another thread is
\* between lines 129 and 155, is terminated by the CHECK; a thread that
\* executes line 126 while the flag is clear passes it, also when another
\* thread has passed it and not yet set the flag.
C15_GuardIsShared == []C15_Aborts /\ [][C15_Stops /\ C15_Slips]_vars

C15_Witness ==
  /\ abort_reason = "CHECK(!lsan_init_is_running)"
  /\ \E t, u \in Threads :
       /\ t # u
       /\ Len(stack[t]) = 1
       /\ Top(t).pc = "CheckNotRunning"
       /\ InBringUp(u)


C17_Rest ==
  SelectSeq(SpecifiedOrder(FALSE, BothToggles),
            LAMBDA x : x # "InstallDeadlySignalHandlers")

\* C17: on Emscripten no deadly-signal handler is ever installed and the
\* install step never starts; a first call that returns has run every
\* other bring-up step, in the order of the other hosts, and leaves
\* lsan_inited true and lsan_init_is_running false.
C17_NoSignals ==
  emscripten =>
    /\ deadly_signal_handler = "none"
    /\ ~Has(started, "InstallDeadlySignalHandlers")
    /\ \A t \in Threads : \A i \in 1..Len(stack[t]) :
         stack[t][i].pc # "InstallDeadlySignalHandlers"
    /\ (calls >= 1 /\ Idle /\ abort_reason = "none") =>
         /\ lsan_inited
         /\ ~lsan_init_is_running
         /\ completed = C17_Rest

C17_Witness ==
  /\ emscripten
  /\ calls = 1
  /\ Idle
  /\ abort_reason = "none"
  /\ lsan_inited
  /\ Has(completed, "InitializeCoverage")

C18_Returned ==
  /\ calls = 1
  /\ Idle
  /\ lsan_inited
  /\ ~lsan_init_is_running

C18_Absorbing ==
  /\ lsan_inited => lsan_inited'
  /\ (lsan_inited /\ ~lsan_init_is_running) => ~lsan_init_is_running'

\* C18: with non-overlapping calls, the first call of __lsan_init either
\* dies in a CHECK (a collaborator called back, or ThreadCreate did not
\* return 0) or eventually returns with lsan_inited true and
\* lsan_init_is_running false; once set, lsan_inited is never cleared, and
\* after completion lsan_init_is_running is never set again.
C18_Completes ==
  /\ (calls = 1) ~> (abort_reason # "none" \/ C18_Returned)
  /\ [][C18_Absorbing]_vars

C18_Witness == C18_Returned /\ abort_reason = "none" /\ ~exited

\* C19 as stated: lsan_inited and lsan_init_is_running are never both true.
C19_Original == ~(lsan_inited /\ lsan_init_is_running)

C19_Frames(labels) ==
  \E t \in Threads : \E i \in 1..Len(stack[t]) : stack[t][i].pc \in labels

C19_InProgress == AllSteps \cup {"CheckTid", "SetInited"}

\* C19: the flag pair takes four values.  It is (false, true) from line 129
\* up to line 154, (true, true) between lines 154 and 155, and otherwise
\* (false, false) before the bring-up and (true, false) after it.  With
\* non-overlapping calls no call executes line 126 while both are true, so
\* a call that finds lsan_inited true at line 126 passes the CHECK.
C19_FlagPair ==
  /\ (~lsan_inited /\ lsan_init_is_running) <=> C19_Frames(C19_InProgress)
  /\ (lsan_inited /\ lsan_init_is_running) <=>
       C19_Frames({"ClearInitIsRunning"})
  /\ \A t \in Threads :
       (stack[t] # <<>> /\ Top(t).pc = "CheckNotRunning" /\ lsan_inited) =>
         ~lsan_init_is_running

C19_Witness ==
  /\ lsan_inited
  /\ lsan_init_is_running
  /\ abort_reason = "none"
  /\ \E t \in Threads : stack[t] # <<>> /\ Top(t).pc = "ClearInitIsRunning"

====
